---------------------------- MODULE Spec2Model ----------------------------
(***************************************************************************)
(* A model of json-parser-rs (src/json-parser-rs/src/main.rs): the value   *)
(* model JsonValue, its serializer to_string, and the recursive-descent    *)
(* Parser over a cursor (input, position).                                 *)
(*                                                                         *)
(* Text is a sequence of characters; a character is a one-character        *)
(* string.  The recursion of the parser is an explicit call stack: one     *)
(* frame per active call, one action per straight-line piece of a          *)
(* function between two calls, and one action per iteration of a loop      *)
(* that makes no call.                                                     *)
(*                                                                         *)
(* f32 values are written in their shortest decimal form, which is what    *)
(* Display prints and what from_str reads back; this is exact for the      *)
(* tokens of fewer than seven digits that the bounded inputs produce.      *)
(***************************************************************************)
EXTENDS Integers, Sequences, FiniteSets, TLC

VARIABLES
    src,       \* the case under test: where `input` comes from
    phase,     \* "serialize" (a value awaits to_string), "parse", "done"
    input,     \* Parser.input
    position,  \* Parser.position
    consumed,  \* history: how many consume() calls returned a character
    stack,     \* the call stack of the parser, innermost call last
    ret,       \* the Result returned by the call that returned last
    result     \* what Parser::parse returned

vars == <<src, phase, input, position, consumed, stack, ret, result>>

----------------------------------------------------------------------------
(* Bounds of the model *)

\* raw texts: an opening bracket followed by at most MaxTail characters
MaxTail == 3
\* most elements of a generated array or object
MaxElems == 2
\* most members of an object literal with repeated keys
MaxMembers == 3
\* how far below and above MAX_DEPTH the nested documents go
NestSlack == 1

(* Program constants *)
MAX_DEPTH == 20

----------------------------------------------------------------------------
(* Characters *)

None == "<none>"

Digits == <<"0", "1", "2", "3", "4", "5", "6", "7", "8", "9">>

\* char::is_digit(10)
is_digit(c) == \E i \in 1..10 : Digits[i] = c

DigitVal(c) == (CHOOSE i \in 1..10 : Digits[i] = c) - 1

HexLower == <<"a", "b", "c", "d", "e", "f">>
HexUpper == <<"A", "B", "C", "D", "E", "F">>

\* char::is_digit(16)
is_hexdigit(c) ==
    \/ is_digit(c)
    \/ \E i \in 1..6 : HexLower[i] = c \/ HexUpper[i] = c

HexVal(c) ==
    IF is_digit(c) THEN DigitVal(c)
    ELSE 9 + (CHOOSE i \in 1..6 : HexLower[i] = c \/ HexUpper[i] = c)

\* char::is_whitespace, on the characters of the model
is_whitespace(c) == c \in {" ", "\t", "\n", "\r", "\f"}

\* char::is_alphabetic, on the characters of the model
is_alphabetic(c) ==
    c \in {"a", "b", "c", "d", "e", "f", "l", "n", "r", "s", "t", "u", "x",
           "A", "B", "C", "D", "E", "F", "é"}

\* the characters of the model that are not ASCII, with their code points
NonAscii == {"é", "€"}

CodePoint(c) ==
    CASE c = "é" -> 233
      [] c = "€" -> 8364
      [] c = "A" -> 65
      [] c = "a" -> 97
      [] c = "0" -> 48
      [] OTHER -> 0

\* char::len_utf8
len_utf8_none(c) == 0

len_utf8(c) ==
    IF c \notin NonAscii THEN 1
    ELSE IF CodePoint(c) < 2048 THEN 2
    ELSE IF CodePoint(c) < 65536 THEN 3
    ELSE 4

\* char::from_u32: None for a surrogate; a character the model has no
\* literal for is named "U+" and its code point
from_u32(cp) ==
    IF cp >= 55296 /\ cp <= 57343 THEN None
    ELSE IF \E c \in {"é", "€", "A", "a", "0"} : CodePoint(c) = cp
         THEN CHOOSE c \in {"é", "€", "A", "a", "0"} : CodePoint(c) = cp
         ELSE "U+" \o ToString(cp)

----------------------------------------------------------------------------
(* The cursor *)

\* self.input.chars().nth(self.position): the position counts characters
peek(text, pos) == IF pos < Len(text) THEN text[pos + 1] ELSE None

\* the position after consume(): advanced by the UTF-8 length of the
\* character, unchanged at the end of input
advance(text, pos) ==
    IF peek(text, pos) = None THEN pos ELSE pos + len_utf8(peek(text, pos))

\* 1 when consume() at pos returns a character, 0 when it returns None
took(text, pos) == IF peek(text, pos) = None THEN 0 ELSE 1

\* String::pop
pop(s) == IF s = <<>> THEN s ELSE SubSeq(s, 1, Len(s) - 1)

\* str::starts_with
starts_with(s, p) == Len(s) >= Len(p) /\ SubSeq(s, 1, Len(p)) = p

----------------------------------------------------------------------------
(* JsonValue *)

Null == [t |-> "Null"]
Boolean(b) == [t |-> "Boolean", b |-> b]
Number(n) == [t |-> "Number", n |-> n]
String(s) == [t |-> "String", s |-> s]
Array(a) == [t |-> "Array", a |-> a]
Object(o) == [t |-> "Object", o |-> o]

\* an f32 in shortest decimal form: (-1)^neg * m * 10^x
F32(neg, m, x) == [neg |-> neg, m |-> m, x |-> x]

RECURSIVE Normalize(_, _, _)
Normalize(neg, m, x) ==
    IF m = 0 THEN F32(neg, 0, 0)
    ELSE IF m % 10 = 0 THEN Normalize(neg, m \div 10, x + 1)
    ELSE F32(neg, m, x)

RECURSIVE DigitsValue(_)
DigitsValue(ds) ==
    IF ds = <<>> THEN 0
    ELSE 10 * DigitsValue(SubSeq(ds, 1, Len(ds) - 1)) + DigitVal(ds[Len(ds)])

\* str::parse::<f32> on a token of an optional '-' and digits, the only
\* tokens parse_number builds
F32Parse(s) ==
    IF starts_with(s, <<"-">>)
    THEN Normalize(TRUE, DigitsValue(Tail(s)), 0)
    ELSE Normalize(FALSE, DigitsValue(s), 0)

RECURSIVE NatToString(_)
NatToString(n) ==
    IF n < 10 THEN <<Digits[n + 1]>>
    ELSE NatToString(n \div 10) \o <<Digits[(n % 10) + 1]>>

Zeros(k) == [i \in 1..k |-> "0"]

\* f32::to_string (Display): no exponent, a fraction only when needed
F32ToString(n) ==
    LET ds == NatToString(n.m)
        k == 0 - n.x
        body == IF n.x >= 0 THEN ds \o Zeros(n.x)
                ELSE IF Len(ds) > k
                     THEN SubSeq(ds, 1, Len(ds) - k) \o <<".">>
                          \o SubSeq(ds, Len(ds) - k + 1, Len(ds))
                     ELSE <<"0", ".">> \o Zeros(k - Len(ds)) \o ds
    IN (IF n.neg THEN <<"-">> ELSE <<>>) \o body

\* IndexMap::insert: a new key goes last, a present key keeps its place and
\* takes the new value
insert_push(object, key, value) == Append(object, <<key, value>>)

insert(object, key, value) ==
    IF \E i \in 1..Len(object) : object[i][1] = key
    THEN [i \in 1..Len(object) |->
            IF object[i][1] = key THEN <<key, value>> ELSE object[i]]
    ELSE Append(object, <<key, value>>)

----------------------------------------------------------------------------
(* impl ToString for JsonValue *)

RECURSIVE to_string(_)
RECURSIVE ArrayItems(_, _)
RECURSIVE ObjectItems(_, _)

\* the for loop of the Array arm: each element followed by ", "
ArrayItems(a, i) ==
    IF i > Len(a) THEN <<>>
    ELSE to_string(a[i]) \o <<",", " ">> \o ArrayItems(a, i + 1)

\* the for loop of the Object arm: each "key": value followed by ", "
ObjectItems(o, i) ==
    IF i > Len(o) THEN <<>>
    ELSE <<"\"">> \o o[i][1] \o <<"\"", ":", " ">> \o to_string(o[i][2])
         \o <<",", " ">> \o ObjectItems(o, i + 1)

to_string(v) ==
    CASE v.t = "Null" -> <<"n", "u", "l", "l">>
      [] v.t = "Boolean" ->
            IF v.b THEN <<"t", "r", "u", "e">> ELSE <<"f", "a", "l", "s", "e">>
      [] v.t = "Number" -> F32ToString(v.n)
      [] v.t = "String" -> <<"\"">> \o v.s \o <<"\"">>
      [] v.t = "Array" ->
            pop(pop(<<"[">> \o ArrayItems(v.a, 1))) \o <<"]">>
      [] v.t = "Object" ->
            pop(pop(<<"{">> \o ObjectItems(v.o, 1))) \o <<"}">>

----------------------------------------------------------------------------
(* Result<JsonValue, ParseError> *)

Unit == [t |-> "Unit"]

Ok(v) == [ok |-> TRUE, v |-> v, e |-> "", pos |-> 0]
Err(e, pos) == [ok |-> FALSE, v |-> Unit, e |-> e, pos |-> pos]

UnexpectedToken(pos) == Err("UnexpectedToken", pos)
UnexpectedEndOfInput == Err("UnexpectedEndOfInput", 0)
TrailingComma(pos) == Err("TrailingComma", pos)
MaxDepthExceeded(pos) == Err("MaxDepthExceeded", pos)
LeadingZero(pos) == Err("LeadingZero", pos)

\* no call has returned yet
NoResult == Err("", 0)

----------------------------------------------------------------------------
(* The call stack *)

\* A frame: the function, where it stands, its depth argument and its
\* locals.  History fields: `start` is the position at entry; `at` is the
\* position at which the loop iteration that ended last began, and `iter`
\* says that the loop has just been re-entered after that iteration.
Frame(fn, pc, depth, pos) ==
    [fn |-> fn, pc |-> pc, depth |-> depth,
     s |-> <<>>, array |-> <<>>, object |-> <<>>, key |-> <<>>,
     is_negative |-> FALSE, is_float |-> FALSE, res |-> NoResult,
     start |-> pos, at |-> pos, iter |-> FALSE]

Top == stack[Len(stack)]

Running(fn, pc) ==
    /\ phase = "parse"
    /\ stack # <<>>
    /\ Top.fn = fn
    /\ Top.pc = pc

\* the running function goes on as frame f, the cursor at pos after n
\* successful consume() calls
Goto(f, pos, n) ==
    /\ stack' = [stack EXCEPT ![Len(stack)] = f]
    /\ position' = pos
    /\ consumed' = consumed + n
    /\ UNCHANGED <<src, phase, input, ret, result>>

\* the running function, now frame f, calls callee
Call(f, callee, pos, n) ==
    /\ stack' = Append([stack EXCEPT ![Len(stack)] = f], callee)
    /\ position' = pos
    /\ consumed' = consumed + n
    /\ UNCHANGED <<src, phase, input, ret, result>>

\* the running function returns r to its caller; the return of parse ends
\* the run
Return(r, pos, n) ==
    /\ stack' = SubSeq(stack, 1, Len(stack) - 1)
    /\ position' = pos
    /\ consumed' = consumed + n
    /\ ret' = r
    /\ IF Len(stack) = 1
       THEN phase' = "done" /\ result' = r
       ELSE UNCHANGED <<phase, result>>
    /\ UNCHANGED <<src, input>>

skip_whitespace_call == Frame("skip_whitespace", "loop", 0, position)

----------------------------------------------------------------------------
(* Parser::skip_whitespace *)

skip_whitespace ==
    /\ Running("skip_whitespace", "loop")
    /\ LET c == peek(input, position)
       IN IF c # None /\ is_whitespace(c)
          THEN Goto([Top EXCEPT !.at = position, !.iter = TRUE],
                    advance(input, position), 1)
          ELSE Return(ret, position, 0)

----------------------------------------------------------------------------
(* Parser::parse *)

parse_start ==
    /\ Running("parse", "start")
    /\ Call([Top EXCEPT !.pc = "dispatch"], skip_whitespace_call, position, 0)

parse_dispatch ==
    /\ Running("parse", "dispatch")
    /\ LET c == peek(input, position)
       IN CASE c = "{" ->
                 Call([Top EXCEPT !.pc = "res"],
                      Frame("parse_object", "start", 0, position), position, 0)
            [] c = "[" ->
                 Call([Top EXCEPT !.pc = "res"],
                      Frame("parse_array", "start", 0, position), position, 0)
            [] c = None ->
                 Goto([Top EXCEPT !.pc = "trail", !.res = UnexpectedEndOfInput],
                      position, 0)
            [] OTHER ->
                 Goto([Top EXCEPT !.pc = "trail",
                                  !.res = UnexpectedToken(position)],
                      position, 0)

\* let res = <the value the call returned>
parse_res ==
    /\ Running("parse", "res")
    /\ Goto([Top EXCEPT !.pc = "trail", !.res = ret], position, 0)

parse_trail ==
    /\ Running("parse", "trail")
    /\ Call([Top EXCEPT !.pc = "final"], skip_whitespace_call, position, 0)

parse_final ==
    /\ Running("parse", "final")
    /\ IF peek(input, position) # None
       THEN Return(UnexpectedToken(position), position, 0)
       ELSE Return(Top.res, position, 0)

----------------------------------------------------------------------------
(* Parser::parse_value *)

parse_value_start ==
    /\ Running("parse_value", "start")
    /\ IF Top.depth >= MAX_DEPTH
       THEN Return(MaxDepthExceeded(position), position, 0)
       ELSE Call([Top EXCEPT !.pc = "dispatch"], skip_whitespace_call,
                 position, 0)

parse_value_dispatch ==
    /\ Running("parse_value", "dispatch")
    /\ LET c == peek(input, position)
           f == [Top EXCEPT !.pc = "return"]
       IN CASE c = None -> Return(UnexpectedEndOfInput, position, 0)
            [] c = "{" ->
                 Call(f, Frame("parse_object", "start", Top.depth, position),
                      position, 0)
            [] c = "[" ->
                 Call(f, Frame("parse_array", "start", Top.depth, position),
                      position, 0)
            [] c = "\"" ->
                 Call(f, Frame("parse_string", "start", 0, position),
                      position, 0)
            [] c \in {"t", "f"} ->
                 Call(f, Frame("parse_boolean", "loop", 0, position),
                      position, 0)
            [] c = "n" ->
                 Call(f, Frame("parse_null", "loop", 0, position), position, 0)
            [] c # None /\ (is_digit(c) \/ c = "-") ->
                 Call(f, Frame("parse_number", "start", 0, position),
                      position, 0)
            [] OTHER -> Return(UnexpectedToken(position), position, 0)

\* the value of the match is the value of the function
parse_value_return ==
    /\ Running("parse_value", "return")
    /\ Return(ret, position, 0)

----------------------------------------------------------------------------
(* Parser::parse_object *)

parse_object_start ==
    /\ Running("parse_object", "start")
    /\ IF Top.depth >= MAX_DEPTH
       THEN Return(MaxDepthExceeded(position), position, 0)
       ELSE Goto([Top EXCEPT !.pc = "loop", !.object = <<>>],
                 advance(input, position), took(input, position))

\* the head of the loop
parse_object_loop ==
    /\ Running("parse_object", "loop")
    /\ Call([Top EXCEPT !.pc = "key", !.at = position, !.iter = FALSE],
            skip_whitespace_call, position, 0)

parse_object_key ==
    /\ Running("parse_object", "key")
    /\ IF peek(input, position) = "}"
       THEN Return(Ok(Object(Top.object)), advance(input, position), 1)
       ELSE Call([Top EXCEPT !.pc = "after_key"],
                 Frame("parse_string", "start", 0, position), position, 0)

parse_object_after_key ==
    /\ Running("parse_object", "after_key")
    /\ IF ~ret.ok
       THEN Return(ret, position, 0)
       ELSE Call([Top EXCEPT !.pc = "colon", !.key = ret.v.s],
                 skip_whitespace_call, position, 0)

parse_object_colon ==
    /\ Running("parse_object", "colon")
    /\ LET c == peek(input, position)
       IN CASE c = None -> Return(UnexpectedEndOfInput, position, 0)
            [] c = ":" ->
                 Call([Top EXCEPT !.pc = "insert"],
                      Frame("parse_value", "start", Top.depth + 1,
                            advance(input, position)),
                      advance(input, position), 1)
            [] OTHER -> Return(UnexpectedToken(position), position, 0)

parse_object_insert ==
    /\ Running("parse_object", "insert")
    /\ IF ~ret.ok
       THEN Return(ret, position, 0)
       ELSE Call([Top EXCEPT !.pc = "sep",
                             !.object = insert(Top.object, Top.key, ret.v)],
                 skip_whitespace_call, position, 0)

parse_object_sep ==
    /\ Running("parse_object", "sep")
    /\ LET c == peek(input, position)
           p == advance(input, position)
           n == took(input, position)
       IN CASE c = "}" -> Return(Ok(Object(Top.object)), p, n)
            [] c = "," ->
                 Call([Top EXCEPT !.pc = "comma"],
                      Frame("skip_whitespace", "loop", 0, p), p, n)
            [] OTHER -> Return(UnexpectedEndOfInput, p, n)

parse_object_comma ==
    /\ Running("parse_object", "comma")
    /\ IF peek(input, position) = "}"
       THEN Return(TrailingComma(position), position, 0)
       ELSE Goto([Top EXCEPT !.pc = "loop", !.iter = TRUE], position, 0)

----------------------------------------------------------------------------
(* Parser::parse_array *)

parse_array_start ==
    /\ Running("parse_array", "start")
    /\ IF Top.depth >= MAX_DEPTH
       THEN Return(MaxDepthExceeded(position), position, 0)
       ELSE Goto([Top EXCEPT !.pc = "loop", !.array = <<>>],
                 advance(input, position), took(input, position))

\* the head of the loop
parse_array_loop ==
    /\ Running("parse_array", "loop")
    /\ Call([Top EXCEPT !.pc = "elem", !.at = position, !.iter = FALSE],
            skip_whitespace_call, position, 0)

parse_array_elem ==
    /\ Running("parse_array", "elem")
    /\ IF peek(input, position) = "]"
       THEN Return(Ok(Array(Top.array)), advance(input, position), 1)
       ELSE Call([Top EXCEPT !.pc = "push"],
                 Frame("parse_value", "start", Top.depth + 1, position),
                 position, 0)

parse_array_push ==
    /\ Running("parse_array", "push")
    /\ IF ~ret.ok
       THEN Return(ret, position, 0)
       ELSE Call([Top EXCEPT !.pc = "sep", !.array = Append(Top.array, ret.v)],
                 skip_whitespace_call, position, 0)

parse_array_sep ==
    /\ Running("parse_array", "sep")
    /\ LET c == peek(input, position)
           p == advance(input, position)
           n == took(input, position)
       IN CASE c = "]" -> Return(Ok(Array(Top.array)), p, n)
            [] c = "," ->
                 Call([Top EXCEPT !.pc = "comma"],
                      Frame("skip_whitespace", "loop", 0, p), p, n)
            [] OTHER -> Return(UnexpectedEndOfInput, p, n)

parse_array_comma ==
    /\ Running("parse_array", "comma")
    /\ IF peek(input, position) = "]"
       THEN Return(TrailingComma(position), position, 0)
       ELSE Goto([Top EXCEPT !.pc = "loop", !.iter = TRUE], position, 0)

----------------------------------------------------------------------------
(* Parser::parse_string *)

\* for _ in 0..4 { match self.consume() ... }: the k hex digits still to
\* read from pos, n characters consumed and the code point cp so far
RECURSIVE HexRun(_, _, _, _, _)
HexRun(text, pos, k, n, cp) ==
    LET c == peek(text, pos)
    IN IF k = 0 THEN [r |-> Ok(Unit), pos |-> pos, n |-> n, cp |-> cp]
       ELSE IF c = None
       THEN [r |-> UnexpectedEndOfInput, pos |-> pos, n |-> n, cp |-> cp]
       ELSE IF is_hexdigit(c)
       THEN HexRun(text, advance(text, pos), k - 1, n + 1, 16 * cp + HexVal(c))
       ELSE [r |-> UnexpectedToken(advance(text, pos)),
             pos |-> advance(text, pos), n |-> n + 1, cp |-> cp]

\* the character a one-letter escape stands for, None when there is none
Escape(c) ==
    CASE c \in {"\"", "\\", "/"} -> c
      [] c = "b" -> from_u32(8)
      [] c = "f" -> "\f"
      [] c = "n" -> "\n"
      [] c = "r" -> "\r"
      [] c = "t" -> "\t"
      [] OTHER -> None

parse_string_start ==
    /\ Running("parse_string", "start")
    /\ Goto([Top EXCEPT !.pc = "loop", !.s = <<>>],
            advance(input, position), took(input, position))

\* one iteration of the loop
parse_string_loop ==
    /\ Running("parse_string", "loop")
    /\ LET c == peek(input, position)
           p1 == advance(input, position)
           c2 == peek(input, p1)
           p2 == advance(input, p1)
           hex == HexRun(input, p2, 4, 0, 0)
           more(ch, pos, n) ==
               Goto([Top EXCEPT !.s = Append(Top.s, ch), !.at = position,
                                !.iter = TRUE], pos, n)
       IN CASE c = None -> Return(UnexpectedEndOfInput, position, 0)
            [] c = "\"" -> Return(Ok(String(Top.s)), p1, 1)
            [] c \in {"\t", "\n", "\r"} -> Return(UnexpectedToken(p1), p1, 1)
            [] c = "\\" /\ c2 = None -> Return(UnexpectedEndOfInput, p1, 1)
            [] c = "\\" /\ c2 # None /\ Escape(c2) # None ->
                 more(Escape(c2), p2, 2)
            [] c = "\\" /\ c2 = "u" ->
                 IF ~hex.r.ok
                 THEN Return(hex.r, hex.pos, 2 + hex.n)
                 ELSE IF from_u32(hex.cp) = None
                 THEN Return(UnexpectedToken(hex.pos), hex.pos, 2 + hex.n)
                 ELSE more(from_u32(hex.cp), hex.pos, 2 + hex.n)
            [] c = "\\" /\ c2 # None /\ c2 # "u" /\ Escape(c2) = None ->
                 Return(UnexpectedToken(p2), p2, 2)
            [] OTHER -> more(c, p1, 1)

----------------------------------------------------------------------------
(* Parser::parse_boolean and Parser::parse_null *)

parse_boolean_loop ==
    /\ Running("parse_boolean", "loop")
    /\ LET c == peek(input, position)
       IN IF c # None /\ is_alphabetic(c)
          THEN Goto([Top EXCEPT !.s = Append(Top.s, c), !.at = position,
                                !.iter = TRUE],
                    advance(input, position), 1)
          ELSE CASE Top.s = <<"t", "r", "u", "e">> ->
                      Return(Ok(Boolean(TRUE)), position, 0)
                 [] Top.s = <<"f", "a", "l", "s", "e">> ->
                      Return(Ok(Boolean(FALSE)), position, 0)
                 [] OTHER -> Return(UnexpectedToken(position), position, 0)

parse_null_loop ==
    /\ Running("parse_null", "loop")
    /\ LET c == peek(input, position)
       IN IF c # None /\ is_alphabetic(c)
          THEN Goto([Top EXCEPT !.s = Append(Top.s, c), !.at = position,
                                !.iter = TRUE],
                    advance(input, position), 1)
          ELSE IF Top.s = <<"n", "u", "l", "l">>
          THEN Return(Ok(Null), position, 0)
          ELSE Return(UnexpectedToken(position), position, 0)

----------------------------------------------------------------------------
(* Parser::parse_number *)

parse_number_start ==
    /\ Running("parse_number", "start")
    /\ IF peek(input, position) = "-"
       THEN Goto([Top EXCEPT !.pc = "loop", !.s = <<"-">>,
                             !.is_negative = TRUE],
                 advance(input, position), 1)
       ELSE Goto([Top EXCEPT !.pc = "loop"], position, 0)

\* what s.push(c) appends to the token once the '.', the exponent marker or
\* the exponent sign `mark` has been read after the digit c: c is still the
\* digit bound by the enclosing match arm
pushed(c, mark) == c

\* one iteration of the loop
parse_number_loop ==
    /\ Running("parse_number", "loop")
    /\ LET c == peek(input, position)
           p1 == advance(input, position)
           d == peek(input, p1)
           p2 == advance(input, p1)
           sign == peek(input, p2)
           signed == sign \in {"+", "-"}
           p3 == IF signed THEN advance(input, p2) ELSE p2
           s1 == Append(Top.s, c)
           s2 == Append(s1, pushed(c, d))
           s3 == IF signed THEN Append(s2, pushed(c, sign)) ELSE s2
           n3 == IF signed THEN 3 ELSE 2
           again(s, float, pos, n) ==
               Goto([Top EXCEPT !.s = s, !.is_float = float,
                                !.at = position, !.iter = TRUE], pos, n)
       IN CASE c = None \/ ~is_digit(c) ->
                 Goto([Top EXCEPT !.pc = "finish"], position, 0)
            [] c # None /\ is_digit(c) /\ d = "." -> again(s2, TRUE, p2, 2)
            [] c # None /\ is_digit(c) /\ d \in {"e", "E"} ->
                 IF peek(input, p3) = None
                 THEN Return(UnexpectedEndOfInput, p3, n3)
                 ELSE IF is_digit(peek(input, p3))
                 THEN again(s3, Top.is_float, p3, n3)
                 ELSE Return(UnexpectedToken(p3), p3, n3)
            [] OTHER -> again(s1, Top.is_float, p1, 1)

\* the checks after the loop and the conversion of the token
parse_number_finish ==
    /\ Running("parse_number", "finish")
    /\ LET s == Top.s
       IN IF Top.is_negative /\ Len(s) = 1
          THEN Return(UnexpectedToken(position), position, 0)
          ELSE IF /\ ~Top.is_float
                  /\ Len(s) > 1
                  /\ (starts_with(s, <<"0">>) \/ starts_with(s, <<"-", "0">>))
          THEN Return(LeadingZero(position), position, 0)
          ELSE Return(Ok(Number(F32Parse(s))), position, 0)

----------------------------------------------------------------------------
(* The cases under test: texts, documents and values *)

SeqsUpTo(S, n) == UNION {[1..k -> S] : k \in 0..n}

\* raw texts: an opening bracket and any tail over a small alphabet
RawAlphabet == {"[", "]", "\"", ",", "1", "-", " ", "é"}

RawTexts == {<<c>> \o tail : c \in {"[", "{"}, tail \in SeqsUpTo(RawAlphabet, MaxTail)}

\* texts that reach the escapes of parse_string, the literals and the
\* error returns of parse_number
ExtraTexts ==
    { <<"[", "\"", "\\", "n", "\\", "/", "\\", "b", "\"", "]">>,
      <<"[", "\"", "\\", "u", "0", "0", "4", "1", "\"", "]">>,
      <<"[", "\"", "\\", "u", "0", "0", "e", "9", "\"", "]">>,
      <<"[", "\"", "\\", "u", "D", "8", "0", "0", "\"", "]">>,
      <<"[", "\"", "\\", "u", "0", "0", "x", "1", "\"", "]">>,
      <<"[", "\"", "\\", "u", "0", "0">>,
      <<"[", "\"", "\\", "x", "\"", "]">>,
      <<"[", "\"", "\\">>,
      <<"[", "\"", "a", "\t", "\"", "]">>,
      <<"[", "t", "r", "u", "e", ",", " ", "f", "a", "l", "s", "e", "]">>,
      <<"[", "t", "r", "u", "]">>,
      <<"[", "n", "u", "l", "]">>,
      <<"[", "1", "e", "]">>,
      <<"[", "1", "e">>,
      <<"[", "1", "E", "+", "2", "]">>,
      <<"[", "0", "1", "]">>,
      <<"[", "x", "]">>,
      <<" ", "\n", "{", " ", "}", " ">>,
      <<"{", "\"", "a", "\"", " ", ":", " ", "1", " ", ",", " ", "\"", "b",
        "\"", ":", "1", "}">>,
      <<"{", "\"", "a", "\"", "}">>,
      <<"{", "\"", "a", "\"">>,
      <<"{", "\"", "a", "\"", ":", "1", " ", "1", "}">>,
      <<"1">>,
      <<>> }

\* a document: the syntax tree of a well-formed text, scalars by their
\* literal
DNum(tok) == [t |-> "num", s |-> tok]
DLit(tok) == [t |-> "lit", s |-> tok]
DStr(s) == [t |-> "str", s |-> s]
DArr(a) == [t |-> "arr", a |-> a]
DObj(o) == [t |-> "obj", o |-> o]

KeyNames == <<"a", "b", "c", "d", "e", "f">>

RECURSIVE Render(_)
RECURSIVE RenderItems(_, _)
RECURSIVE RenderMembers(_, _)

RenderItems(a, i) ==
    IF i > Len(a) THEN <<>>
    ELSE (IF i > 1 THEN <<",">> ELSE <<>>) \o Render(a[i])
         \o RenderItems(a, i + 1)

RenderMembers(o, i) ==
    IF i > Len(o) THEN <<>>
    ELSE (IF i > 1 THEN <<",">> ELSE <<>>) \o <<"\"">> \o o[i][1]
         \o <<"\"", ":">> \o Render(o[i][2]) \o RenderMembers(o, i + 1)

\* the compact text of a document
Render(d) ==
    CASE d.t \in {"num", "lit"} -> d.s
      [] d.t = "str" -> <<"\"">> \o d.s \o <<"\"">>
      [] d.t = "arr" -> <<"[">> \o RenderItems(d.a, 1) \o <<"]">>
      [] d.t = "obj" -> <<"{">> \o RenderMembers(d.o, 1) \o <<"}">>

\* number literals of the grammar -? digit+ (. digit+)? ((e|E) (+|-)? digit+)?
NumberLiterals ==
    { <<"0">>, <<"1">>, <<"-", "0">>, <<"1", ".", "5">>, <<"0", "e", "5">>,
      <<"1", "e", "-", "5">> }

DocScalars ==
    {DNum(tok) : tok \in NumberLiterals}
    \cup {DLit(<<"t", "r", "u", "e">>), DLit(<<"n", "u", "l", "l">>)}
    \cup {DStr(<<"a">>), DStr(<<"é">>)}

\* the object whose i-th member has the i-th key name
Keyed(a) == DObj([i \in 1..Len(a) |-> <<<<KeyNames[i]>>, a[i]>>])

FlatDocs(S, n) ==
    {DArr(a) : a \in SeqsUpTo(S, n)} \cup {Keyed(a) : a \in SeqsUpTo(S, n)}

\* k containers inside one another around inner (a sequence of at most one
\* scalar), all arrays or all objects
RECURSIVE NestDoc(_, _, _)
NestDoc(k, inner, kind) ==
    LET content == IF k = 1 THEN inner ELSE <<NestDoc(k - 1, inner, kind)>>
    IN IF kind = "arr" THEN DArr(content) ELSE Keyed(content)

NestDocs ==
    {NestDoc(k, inner, kind) :
        k \in (MAX_DEPTH - NestSlack)..(MAX_DEPTH + NestSlack),
        inner \in {<<>>, <<DNum(<<"1">>)>>},
        kind \in {"arr", "obj"}}

Docs ==
    FlatDocs(DocScalars, MaxElems)
    \cup FlatDocs(FlatDocs(DocScalars, 1), 1)
    \cup NestDocs

\* an object literal whose i-th member has key keys[i] and value i
MembersDoc(keys) ==
    DObj([i \in 1..Len(keys) |-> <<keys[i], DNum(NatToString(i))>>])

MemberKeys == SeqsUpTo({<<"a">>, <<"b">>}, MaxMembers) \ {<<>>}

\* documents that get a comma before their last closing bracket
TrailingDocs ==
    (FlatDocs({DNum(<<"1">>), DNum(<<"2">>)}, MaxElems)
       \ {DArr(<<>>), DObj(<<>>)})
    \cup {DArr(<<DNum(<<"1">>), DArr(<<DNum(<<"2">>)>>)>>)}

WithTrailingComma(text) ==
    SubSeq(text, 1, Len(text) - 1) \o <<",">> \o <<text[Len(text)]>>

\* objects in which a member starts with a character that opens no string
KeyPrefixes == {<<"{">>, <<"{", " ">>, <<"{", "\"", "a", "\"", ":", "1", ",">>}

BadKeyChars == {"a", "1", "[", ":", "\\", "t"}

BadKeyTexts ==
    {prefix \o <<c>> \o rest :
        prefix \in KeyPrefixes, c \in BadKeyChars,
        rest \in {<<"\"", ":", "1", "}">>, <<"b", "\"", ":", "1", "}">>,
                  <<":", "1", "}">>}}

\* values to serialize: containers of scalars, and containers of those
ValueScalars ==
    {Null, Boolean(TRUE), Number(F32(FALSE, 1, 0)), Number(F32(FALSE, 15, -1)),
     String(<<"a">>)}

FlatValues(S, n) ==
    {Array(a) : a \in SeqsUpTo(S, n)}
    \cup {Object([i \in 1..Len(a) |-> <<<<KeyNames[i]>>, a[i]>>]) :
            a \in SeqsUpTo(S, n)}

Values ==
    FlatValues(ValueScalars, MaxElems)
    \cup FlatValues(FlatValues(ValueScalars, 1), 1)

----------------------------------------------------------------------------
(* The specification *)

\* Parser::new(input), about to run parse
Start(text) ==
    /\ phase = "parse"
    /\ input = text
    /\ position = 0
    /\ consumed = 0
    /\ stack = <<Frame("parse", "start", 0, 0)>>
    /\ ret = NoResult
    /\ result = NoResult

Init ==
    \/ \E text \in RawTexts \cup ExtraTexts :
          src = [kind |-> "raw"] /\ Start(text)
    \/ \E text \in BadKeyTexts :
          src = [kind |-> "badkey"] /\ Start(text)
    \/ \E d \in Docs :
          src = [kind |-> "doc", d |-> d] /\ Start(Render(d))
    \/ \E keys \in MemberKeys :
          src = [kind |-> "members", keys |-> keys]
          /\ Start(Render(MembersDoc(keys)))
    \/ \E d \in TrailingDocs :
          src = [kind |-> "trailing", d |-> d]
          /\ Start(WithTrailingComma(Render(d)))
    \/ \E v \in Values :
          /\ src = [kind |-> "value", v |-> v]
          /\ phase = "serialize"
          /\ input = <<>>
          /\ position = 0
          /\ consumed = 0
          /\ stack = <<>>
          /\ ret = NoResult
          /\ result = NoResult

\* json.to_string(), and a parser made for the text
Serialize ==
    /\ phase = "serialize"
    /\ phase' = "parse"
    /\ input' = to_string(src.v)
    /\ stack' = <<Frame("parse", "start", 0, 0)>>
    /\ UNCHANGED <<src, position, consumed, ret, result>>

Next ==
    \/ Serialize
    \/ skip_whitespace
    \/ parse_start
    \/ parse_dispatch
    \/ parse_res
    \/ parse_trail
    \/ parse_final
    \/ parse_value_start
    \/ parse_value_dispatch
    \/ parse_value_return
    \/ parse_object_start
    \/ parse_object_loop
    \/ parse_object_key
    \/ parse_object_after_key
    \/ parse_object_colon
    \/ parse_object_insert
    \/ parse_object_sep
    \/ parse_object_comma
    \/ parse_array_start
    \/ parse_array_loop
    \/ parse_array_elem
    \/ parse_array_push
    \/ parse_array_sep
    \/ parse_array_comma
    \/ parse_string_start
    \/ parse_string_loop
    \/ parse_boolean_loop
    \/ parse_null_loop
    \/ parse_number_start
    \/ parse_number_loop
    \/ parse_number_finish

Spec == Init /\ [][Next]_vars

\* the parser is straight-line code on one thread: a step that can be taken
\* is taken
FairSpec == Spec /\ WF_vars(Next)

Done == phase = "done"

----------------------------------------------------------------------------
(* What the claims speak of *)

Max(a, b) == IF a >= b THEN a ELSE b

RECURSIVE MaxOver(_, _)
MaxOver(depths, i) ==
    IF i > Len(depths) THEN 0 ELSE Max(depths[i], MaxOver(depths, i + 1))

\* how many containers lie inside one another in a document
RECURSIVE DocDepth(_)
DocDepth(d) ==
    CASE d.t = "arr" -> 1 + MaxOver([i \in 1..Len(d.a) |-> DocDepth(d.a[i])], 1)
      [] d.t = "obj" ->
            1 + MaxOver([i \in 1..Len(d.o) |-> DocDepth(d.o[i][2])], 1)
      [] OTHER -> 0

\* the nesting of a document and of a value: arrays, objects and scalars
RECURSIVE DocShape(_)
DocShape(d) ==
    CASE d.t = "arr" ->
            [t |-> "array", a |-> [i \in 1..Len(d.a) |-> DocShape(d.a[i])]]
      [] d.t = "obj" ->
            [t |-> "object", a |-> [i \in 1..Len(d.o) |-> DocShape(d.o[i][2])]]
      [] OTHER -> [t |-> "scalar"]

RECURSIVE ValueShape(_)
ValueShape(v) ==
    CASE v.t = "Array" ->
            [t |-> "array", a |-> [i \in 1..Len(v.a) |-> ValueShape(v.a[i])]]
      [] v.t = "Object" ->
            [t |-> "object", a |-> [i \in 1..Len(v.o) |-> ValueShape(v.o[i][2])]]
      [] OTHER -> [t |-> "scalar"]

Count(text, c) == Cardinality({i \in 1..Len(text) : text[i] = c})

\* the first character at or after index i (from 1) that is no whitespace
RECURSIVE Significant(_, _)
Significant(text, i) ==
    IF i > Len(text) THEN None
    ELSE IF is_whitespace(text[i]) THEN Significant(text, i + 1)
    ELSE text[i]

\* a member is due after one of the prefixes and what comes is neither a
\* quote nor the closing brace
BadKey(text) ==
    \E prefix \in KeyPrefixes :
        /\ starts_with(text, prefix)
        /\ Significant(text, Len(prefix) + 1) \notin {"\"", "}", None}

\* the keys in the order of their first occurrence
RECURSIVE FirstKeys(_, _)
FirstKeys(keys, i) ==
    IF i > Len(keys) THEN <<>>
    ELSE IF \E j \in 1..(i - 1) : keys[j] = keys[i]
    THEN FirstKeys(keys, i + 1)
    ELSE <<keys[i]>> \o FirstKeys(keys, i + 1)

LastIndex(keys, k) ==
    CHOOSE i \in 1..Len(keys) :
        keys[i] = k /\ \A j \in (i + 1)..Len(keys) : keys[j] # k

\* the object the member list of MembersDoc(keys) stands for
ExpectedObject(keys) ==
    LET first == FirstKeys(keys, 1)
    IN Object([i \in 1..Len(first) |->
                 <<first[i], Number(F32Parse(NatToString(LastIndex(keys, first[i]))))>>])

\* every loop that was re-entered has moved the cursor since the iteration
\* before began
LoopProgress == \A i \in 1..Len(stack) : stack[i].iter => position > stack[i].at

----------------------------------------------------------------------------
(* The claims *)

\* C1: a well-formed document rooted in an object or an array, nested at
\* most MAX_DEPTH deep, parses to Ok and the tree has the nesting of the
\* document.
C1_WellFormedParses ==
    (Done /\ src.kind = "doc" /\ DocDepth(src.d) <= MAX_DEPTH)
        => (result.ok /\ ValueShape(result.v) = DocShape(src.d))

\* C2: a comma before the closing bracket of an array or an object makes
\* parse return TrailingComma with the position of that bracket.
C2_TrailingCommaReported ==
    (Done /\ src.kind = "trailing")
        => result = TrailingComma(Len(input) - 1)

\* C3: a document nested exactly MAX_DEPTH deep parses, whatever is
\* innermost; one nested MAX_DEPTH + 1 deep fails with MaxDepthExceeded.
C3_DepthLimit ==
    (Done /\ src.kind = "doc")
        => /\ DocDepth(src.d) = MAX_DEPTH => result.ok
           /\ DocDepth(src.d) = MAX_DEPTH + 1
                => (~result.ok /\ result.e = "MaxDepthExceeded")

\* C4: to_string of an empty Object is {} and of an empty Array is [], at
\* the root and inside another container; the brackets of the text match.
C4_EmptyContainers ==
    (phase # "serialize" /\ src.kind = "value")
        => /\ src.v = Array(<<>>) => input = <<"[", "]">>
           /\ src.v = Object(<<>>) => input = <<"{", "}">>
           /\ src.v = Array(<<Array(<<>>)>>) => input = <<"[", "[", "]", "]">>
           /\ src.v = Array(<<Object(<<>>)>>) => input = <<"[", "{", "}", "]">>
           /\ Count(input, "[") = Count(input, "]")
           /\ Count(input, "{") = Count(input, "}")

\* C5: parsing the text to_string makes of a value (none of whose strings
\* needs an escape) succeeds and gives back the value.
C5_RoundTrip ==
    (Done /\ src.kind = "value") => (result.ok /\ result.v = src.v)

\* C6: the Object parse_object makes of a member list has each key once, in
\* the order of first occurrence, with the value of its last occurrence.
C6_FirstPositionLastValue ==
    (Done /\ src.kind = "members" /\ result.ok)
        => result.v = ExpectedObject(src.keys)

\* a parsed member list whose first key comes again after another key
C6_Witness ==
    /\ Done
    /\ src.kind = "members"
    /\ result.ok
    /\ Len(src.keys) = 3
    /\ src.keys[1] = src.keys[3]
    /\ src.keys[1] # src.keys[2]

\* C7: when parse_number succeeds, the token it converts is the text it
\* consumed, character by character.
C7_TokenIsConsumedText ==
    [][(Running("parse_number", "finish") /\ ret'.ok)
          => Top.s = SubSeq(input, Top.start + 1, position)]_vars

\* C8: after k consume() calls that returned a character, peek() is the
\* (k+1)-th character of the input, or none when there is no such.
C8_CursorAgreement ==
    peek(input, position)
        = IF consumed < Len(input) THEN input[consumed + 1] ELSE None

\* C9: an object in which a member starts with a character other than a
\* double quote is never parsed to Ok.
C9_KeyMustBeQuoted == (Done /\ BadKey(input)) => ~result.ok

\* C10: the position never decreases, every loop iteration that does not
\* leave its loop moves the position forward, and parse returns.
C10_Terminates ==
    /\ [][position' >= position /\ LoopProgress']_vars
    /\ <>Done

\* an object loop re-entered after a member, past where the member began
C10_Witness ==
    /\ Running("parse_object", "loop")
    /\ Top.iter
    /\ Top.object # <<>>
    /\ position > Top.at

=============================================================================
